---- MODULE Spec2Model ----
(***************************************************************************)
(* FatumBot (src/fatumbot.py): the per-user profile store DB, its durable  *)
(* copy database.json, the rate limiter and the public operations          *)
(* setLocation, setRadius, setSource, fetchAnomaly and fetchBlindspot.     *)
(*                                                                         *)
(* Spec   : the operations called one after another (each action is one   *)
(*          whole call), with a clock that advances between calls.         *)
(* SpecC  : two threads calling operations of the same FatumBot object,    *)
(*          interleaved at the statements of __rateLimit and __toDB.       *)
(***************************************************************************)
EXTENDS Integers, Sequences, FiniteSets, TLC

VARIABLES
    DB,      \* self.DB: user id -> dataset (a dict with loc, rad, src and, once rate limited, ts)
    file,    \* database.json: [state, text]
    now,     \* int(time.time())
    last,    \* the last public call of Spec: its name, arguments, API request and what it returned
    pc,      \* SpecC: per thread, the statement it is at
    job,     \* SpecC: per thread, the call it runs and its local variables
    hist     \* history: per thread the calls begun (SpecC); per user id the time of the
             \* last fetch the rate limiter allowed, and whether a fetch was ever allowed
             \* less than REQUEST_LIMIT seconds after the one allowed before it

vars == <<DB, file, now, last, pc, job, hist>>

-----------------------------------------------------------------------------
(* Bounds of the model *)

MaxTime == 15        \* the clock stops advancing here
MaxCalls == 1        \* SpecC: calls each thread makes

(* Program constants *)

DEFAULT_RADIUS_MIN == 1000
DEFAULT_RADIUS_MAX == 10000
REQUEST_LIMIT == 10
NO_ANOMALY_STATUS == 418

\* A number as a caller can pass it for a radius: whole + tenths/10, whole >= 0.
\* tenths = 0 is a Python int, anything else a float.
Num(w, t) == [whole |-> w, tenths |-> t]

DEFAULT_RADIUS == Num(2000, 0)
DEFAULT_SOURCE == "temporal"
SOURCES == {"temporal", "pseudo"}
POINT_TYPE == <<"Blindspot", "Attractor", "Void">>

\* int(radius): truncation toward zero (the inputs are non-negative)
PyInt(r) == r.whole

\* str.format of a number
NumStr(r) == IF r.tenths = 0 THEN ToString(r.whole)
             ELSE ToString(r.whole) \o "." \o ToString(r.tenths)

-----------------------------------------------------------------------------
(* Inputs *)

Ids == {"u1", "u2"}
LocInputs == { [lat |-> 10, lon |-> 30], [lat |-> 20, lon |-> 40] }
RadiusInputs == { Num(999, 0), Num(999, 5), Num(1000, 0), Num(10000, 0),
                  Num(10000, 5), Num(10001, 0) }
SourceInputs == {"temporal", "pseudo", "quantum"}
AnomalyTypes == {"attractor"}
BlindspotTypes == {"quantum", "pseudo"}
TickSeconds == {5}

Point == [ type |-> 1, location |-> [latitude |-> "10.01", longitude |-> "30.02"],
           power |-> "1.50", radius |-> "80.00", z_score |-> "4.10",
           distance |-> "1200.00", bearing |-> "45.00" ]

\* What requests.get does: it raises (no connection, timeout), or gives a response
\* with ok, status_code and text; text is the JSON document json.loads parses.
Http(raises, ok, status, body, text) ==
    [raises |-> raises, ok |-> ok, status_code |-> status, body |-> body, text |-> text]

HttpOutcomes ==
    { Http(TRUE, FALSE, 0, [none |-> 0], ""),                                \* transport failure
      Http(FALSE, TRUE, 200, [result |-> [points |-> <<Point>>]], ""),       \* a result with a point
      Http(FALSE, TRUE, 200, [result |-> [points |-> <<>>]], ""),            \* a result with no points
      Http(FALSE, TRUE, 200, [message |-> "ok"], ""),                        \* neither result nor error
      Http(FALSE, FALSE, NO_ANOMALY_STATUS, [none |-> 0], "teapot"),         \* error response 418
      Http(FALSE, FALSE, 500, [none |-> 0], "boom") }                        \* error response 500

-----------------------------------------------------------------------------
(* Message strings *)

MSG_SET_LOCATION == "Please set your location first."
MSG_DEFAULT_RADIUS == "Location set with radius 2000."
MSG_SET_RADIUS_LIMITS ==
    "Please provide a radius in meters. Min. " \o ToString(DEFAULT_RADIUS_MIN)
        \o " and max. " \o ToString(DEFAULT_RADIUS_MAX) \o "."
MSG_RADIUS_SET(radius) == "Your search radius has been set to " \o NumStr(radius) \o " meters!"
MSG_SOURCE_SET(source) == "Your entropy source has been set to " \o source \o "!"
MSG_SOURCE_INVALID(source, cur) ==
    "An entropy source with the name " \o source \o " does not exist! Using " \o cur
MSG_SOURCE_AVAILABLE == "The following sources are available: ['temporal', 'pseudo']"
MSG_RATE_LIMIT_REACHED(secs) ==
    "Sorry, you are requesting too many points. Please try again in "
        \o ToString(secs) \o " seconds."
MSG_ANOMALY_FOUND(typeName, src, point) ==
    typeName \o " anomaly found: Entropy: " \o src
        \o " Latitude: " \o point.location.latitude
        \o " Longitue: " \o point.location.longitude
        \o " Power: " \o point.power \o " Radius: " \o point.radius
        \o " Z-score: " \o point.z_score \o " Distance: " \o point.distance
        \o " Bearing: " \o point.bearing
MSG_BLINDSPOT_FOUND(esrc, point) ==
    "Blindspot found: Entropy: " \o esrc
        \o " Latitude: " \o point.location.latitude
        \o " Longitue: " \o point.location.longitude
        \o " Distance: " \o point.distance \o " Bearing: " \o point.bearing
MSG_NO_ANOMALY_FOUND == "Sorry, no anomaly could be found."

-----------------------------------------------------------------------------
(* What a call gives its caller: a list of strings, None, or an exception *)

Returned(msgs) == [kind |-> "list", val |-> msgs]
ReturnedNone == [kind |-> "None", val |-> <<>>]
Raised == [kind |-> "raise", val |-> <<>>]

NoRequest == ""

-----------------------------------------------------------------------------
(* The store *)

EmptyDB == [i \in {} |-> 0]

\* json.dumps(self.DB): the document written, one member per user id
dumps(db) == { <<id, db[id]>> : id \in DOMAIN db }
\* json.load: the dict read back from a document
loads(text) == [id \in { m[1] : m \in text } |-> (CHOOSE m \in text : m[1] = id)[2]]

NoFile == [state |-> "absent", text |-> {}]
Written(db) == [state |-> "written", text |-> dumps(db)]

\* The store a restart would load (__init__): {} when there is no file
Stored(f) == IF f.state = "absent" THEN EmptyDB ELSE loads(f.text)

\* A variant of __toDB that creates the dataset when the user id is unknown
toDB_upsert(db, f, id, field, value) ==
    LET old == IF id \in DOMAIN db THEN db[id] ELSE [loc |-> [lat |-> 0, lon |-> 0]]
        db2 == (id :> ((field :> value) @@ old)) @@ db
    IN  [ok |-> TRUE, DB |-> db2, file |-> Written(db2)]

\* A variant of __toDB that sets the field in every dataset of the store
toDB_allUsers(db, f, id, field, value) ==
    IF id \in DOMAIN db
    THEN LET db2 == [i \in DOMAIN db |-> (field :> value) @@ db[i]]
         IN  [ok |-> TRUE, DB |-> db2, file |-> Written(db2)]
    ELSE [ok |-> FALSE, DB |-> db, file |-> f]

\* __toDB: set one field of an existing dataset and rewrite the whole file
toDB(db, f, id, field, value) ==
    IF id \in DOMAIN db
    THEN LET db2 == [db EXCEPT ![id] = (field :> value) @@ db[id]]
         IN  [ok |-> TRUE, DB |-> db2, file |-> Written(db2)]
    ELSE [ok |-> FALSE, DB |-> db, file |-> f]

\* __initUserLocation: a new dataset, or a new location; the file is not touched
initUserLocation(db, id, loc, rad, src) ==
    IF id \notin DOMAIN db
    THEN (id :> [loc |-> loc, rad |-> rad, src |-> src]) @@ db
    ELSE [db EXCEPT ![id] = ("loc" :> loc) @@ db[id]]

\* A variant of __rateLimit that records the time of a denied request too
rateLimit_stampsDenied(db, f, id, timestamp) ==
    LET w == toDB(db, f, id, "ts", timestamp)
    IN  IF "ts" \in DOMAIN db[id] /\ timestamp - db[id].ts < REQUEST_LIMIT
        THEN [req |-> timestamp - db[id].ts, DB |-> w.DB, file |-> w.file]
        ELSE [req |-> REQUEST_LIMIT, DB |-> w.DB, file |-> w.file]

\* A variant of __rateLimit that denies a request made exactly REQUEST_LIMIT seconds later
rateLimit_tieDenied(db, f, id, timestamp) ==
    IF "ts" \in DOMAIN db[id] /\ timestamp - db[id].ts <= REQUEST_LIMIT
    THEN [req |-> timestamp - db[id].ts - 1, DB |-> db, file |-> f]
    ELSE LET w == toDB(db, f, id, "ts", timestamp)
         IN  [req |-> REQUEST_LIMIT, DB |-> w.DB, file |-> w.file]

\* __rateLimit: the seconds since the last allowed request when below the limit
\* (nothing written), else the timestamp is written and REQUEST_LIMIT returned
rateLimit(db, f, id, timestamp) ==
    IF "ts" \in DOMAIN db[id] /\ timestamp - db[id].ts < REQUEST_LIMIT
    THEN [req |-> timestamp - db[id].ts, DB |-> db, file |-> f]
    ELSE LET w == toDB(db, f, id, "ts", timestamp)
         IN  [req |-> REQUEST_LIMIT, DB |-> w.DB, file |-> w.file]

\* __setDefaultParams
setDefaultParams(user) ==
    "latitude=" \o ToString(user.loc.lat) \o "&longitude=" \o ToString(user.loc.lon)
        \o "&radius=" \o NumStr(user.rad) \o "&source=" \o user.src

\* __fromAPI after requests.get has answered: the parsed body of an ok response,
\* else a {status, error} document
fromAPI(http) ==
    IF http.ok THEN http.body
    ELSE [status |-> http.status_code, error |-> http.text]

-----------------------------------------------------------------------------
(* The public operations as functions of the store, the file, the clock and,  *)
(* for the fetches, of what requests.get does.  Each gives the store and the  *)
(* file it leaves, what the caller gets and the API request it made.          *)

Outcome(db, f, ret, request) == [DB |-> db, file |-> f, ret |-> ret, request |-> request]

\* A variant of setLocation that initialises the dataset on every call
setLocationOp_reset(db, f, id, lat, lon) ==
    LET location == [lat |-> lat, lon |-> lon]
        db2 == (id :> [loc |-> location, rad |-> DEFAULT_RADIUS, src |-> DEFAULT_SOURCE]) @@ db
    IN  Outcome(db2, IF id \in DOMAIN db THEN Written(db2) ELSE f,
                Returned(<<MSG_DEFAULT_RADIUS>>), NoRequest)

setLocationOp(db, f, id, lat, lon) ==
    LET location == [lat |-> lat, lon |-> lon]
        w == toDB(db, f, id, "loc", location)
    IN  IF ~w.ok
        THEN Outcome(initUserLocation(db, id, location, DEFAULT_RADIUS, DEFAULT_SOURCE), f,
                     Returned(<<MSG_DEFAULT_RADIUS>>), NoRequest)
        ELSE Outcome(w.DB, w.file, Returned(<<MSG_DEFAULT_RADIUS>>), NoRequest)

setRadiusOp(db, f, id, radius) ==
    IF PyInt(radius) < DEFAULT_RADIUS_MIN \/ PyInt(radius) > DEFAULT_RADIUS_MAX
    THEN Outcome(db, f, Returned(<<MSG_SET_RADIUS_LIMITS>>), NoRequest)
    ELSE LET w == toDB(db, f, id, "rad", radius)
         IN  IF w.ok
             THEN Outcome(w.DB, w.file, Returned(<<MSG_RADIUS_SET(radius)>>), NoRequest)
             ELSE Outcome(db, f, Returned(<<MSG_SET_LOCATION>>), NoRequest)

\* A variant of setSource that stores the source without looking it up in SOURCES
setSourceOp_unvalidated(db, f, id, source) ==
    LET w == toDB(db, f, id, "src", source)
    IN  IF w.ok
        THEN Outcome(w.DB, w.file, Returned(<<MSG_SOURCE_SET(source)>>), NoRequest)
        ELSE Outcome(db, f, Returned(<<MSG_SET_LOCATION>>), NoRequest)

\* A variant of setSource that answers an unknown source with one string
setSourceOp_oneMessage(db, f, id, source) ==
    IF source \in SOURCES
    THEN LET w == toDB(db, f, id, "src", source)
         IN  IF w.ok
             THEN Outcome(w.DB, w.file, Returned(<<MSG_SOURCE_SET(source)>>), NoRequest)
             ELSE Outcome(db, f, Returned(<<MSG_SET_LOCATION>>), NoRequest)
    ELSE IF id \in DOMAIN db
         THEN Outcome(db, f, Returned(<<MSG_SOURCE_INVALID(source, db[id].src)>>), NoRequest)
         ELSE Outcome(db, f, Returned(<<MSG_SET_LOCATION>>), NoRequest)

setSourceOp(db, f, id, source) ==
    IF source \in SOURCES
    THEN LET w == toDB(db, f, id, "src", source)
         IN  IF w.ok
             THEN Outcome(w.DB, w.file, Returned(<<MSG_SOURCE_SET(source)>>), NoRequest)
             ELSE Outcome(db, f, Returned(<<MSG_SET_LOCATION>>), NoRequest)
    ELSE IF id \in DOMAIN db
         THEN Outcome(db, f, Returned(<<MSG_SOURCE_INVALID(source, db[id].src),
                                        MSG_SOURCE_AVAILABLE>>), NoRequest)
         ELSE Outcome(db, f, Returned(<<MSG_SET_LOCATION>>), NoRequest)

\* fetchAnomaly lines 205-226: the reply made from the API's JSON document
anomalyReply(json, user) ==
    IF "result" \in DOMAIN json
    THEN IF json.result.points = <<>>
         THEN Raised                                   \* points[0]: IndexError
         ELSE LET point == json.result.points[1]
              IN  IF point.type + 1 \notin DOMAIN POINT_TYPE
                  THEN Raised                          \* POINT_TYPE[...]: IndexError
                  ELSE Returned(<<MSG_ANOMALY_FOUND(POINT_TYPE[point.type + 1], user.src, point),
                                  "@@" \o point.location.latitude \o "," \o point.location.longitude>>)
    ELSE IF "error" \in DOMAIN json
         THEN IF json.status = NO_ANOMALY_STATUS
              THEN Returned(<<MSG_NO_ANOMALY_FOUND>>)
              ELSE Returned(<<json.error>>)
         ELSE ReturnedNone                             \* no branch returns

\* A variant of fetchAnomaly that takes the timestamp back when requests.get raises
fetchAnomalyOp_refund(db, f, timestamp, id, type, http) ==
    IF id \in DOMAIN db
    THEN LET rl == rateLimit(db, f, id, timestamp)
         IN  IF rl.req < REQUEST_LIMIT
             THEN Outcome(rl.DB, rl.file,
                          Returned(<<MSG_RATE_LIMIT_REACHED(REQUEST_LIMIT - rl.req)>>), NoRequest)
             ELSE LET user == rl.DB[id]
                      request == "/gen/anomaly?" \o setDefaultParams(user) \o "&type=" \o type
                  IN  IF http.raises
                      THEN Outcome(db, f, Raised, request)
                      ELSE Outcome(rl.DB, rl.file, anomalyReply(fromAPI(http), user), request)
    ELSE Outcome(db, f, Returned(<<MSG_SET_LOCATION>>), NoRequest)

fetchAnomalyOp(db, f, timestamp, id, type, http) ==
    IF id \in DOMAIN db
    THEN LET rl == rateLimit(db, f, id, timestamp)
         IN  IF rl.req < REQUEST_LIMIT
             THEN Outcome(rl.DB, rl.file,
                          Returned(<<MSG_RATE_LIMIT_REACHED(REQUEST_LIMIT - rl.req)>>), NoRequest)
             ELSE LET user == rl.DB[id]
                      request == "/gen/anomaly?" \o setDefaultParams(user) \o "&type=" \o type
                  IN  IF http.raises
                      THEN Outcome(rl.DB, rl.file, Raised, request)
                      ELSE Outcome(rl.DB, rl.file, anomalyReply(fromAPI(http), user), request)
    ELSE Outcome(db, f, Returned(<<MSG_SET_LOCATION>>), NoRequest)

\* A variant of the blindspot reply with fetchAnomaly's answer to status 418
blindspotReply_sentinel(json, esrc) ==
    IF "result" \in DOMAIN json
    THEN IF json.result.points = <<>>
         THEN Raised
         ELSE LET point == json.result.points[1]
              IN  Returned(<<MSG_BLINDSPOT_FOUND(esrc, point),
                             "geo:" \o point.location.latitude \o "," \o point.location.longitude>>)
    ELSE IF "error" \in DOMAIN json
         THEN IF json.status = NO_ANOMALY_STATUS
              THEN Returned(<<MSG_NO_ANOMALY_FOUND>>)
              ELSE Returned(<<json.error>>)
         ELSE ReturnedNone

\* fetchBlindspot lines 254-268
blindspotReply(json, esrc) ==
    IF "result" \in DOMAIN json
    THEN IF json.result.points = <<>>
         THEN Raised                                   \* points[0]: IndexError
         ELSE LET point == json.result.points[1]
              IN  Returned(<<MSG_BLINDSPOT_FOUND(esrc, point),
                             "geo:" \o point.location.latitude \o "," \o point.location.longitude>>)
    ELSE IF "error" \in DOMAIN json
         THEN Returned(<<json.error>>)
         ELSE ReturnedNone                             \* no branch returns

\* A variant of fetchBlindspot that does not ask the rate limiter
fetchBlindspotOp_unlimited(db, f, timestamp, id, type, http) ==
    IF id \in DOMAIN db
    THEN LET rl == toDB(db, f, id, "ts", timestamp)
             source == rl.DB[id].src
             esrc == IF type = "pseudo" THEN "pseudo" ELSE source
             o == IF type = "pseudo"
                  THEN toDB(rl.DB, rl.file, id, "src", "pseudo")
                  ELSE [ok |-> TRUE, DB |-> rl.DB, file |-> rl.file]
             request == "/gen/blindspot?" \o setDefaultParams(o.DB[id])
         IN  IF http.raises
             THEN Outcome(o.DB, o.file, Raised, request)
             ELSE LET r == toDB(o.DB, o.file, id, "src", source)
                  IN  Outcome(r.DB, r.file, blindspotReply(fromAPI(http), esrc), request)
    ELSE Outcome(db, f, Returned(<<MSG_SET_LOCATION>>), NoRequest)

fetchBlindspotOp(db, f, timestamp, id, type, http) ==
    IF id \in DOMAIN db
    THEN LET rl == rateLimit(db, f, id, timestamp)
         IN  IF rl.req < REQUEST_LIMIT
             THEN Outcome(rl.DB, rl.file,
                          Returned(<<MSG_RATE_LIMIT_REACHED(REQUEST_LIMIT - rl.req)>>), NoRequest)
             ELSE LET source == rl.DB[id].src
                      esrc == IF type = "pseudo" THEN "pseudo" ELSE source
                      o == IF type = "pseudo"
                           THEN toDB(rl.DB, rl.file, id, "src", "pseudo")
                           ELSE [ok |-> TRUE, DB |-> rl.DB, file |-> rl.file]
                      request == "/gen/blindspot?" \o setDefaultParams(o.DB[id])
                  IN  IF http.raises
                      THEN Outcome(o.DB, o.file, Raised, request)    \* line 253 is not reached
                      ELSE LET r == toDB(o.DB, o.file, id, "src", source)
                           IN  Outcome(r.DB, r.file, blindspotReply(fromAPI(http), esrc), request)
    ELSE Outcome(db, f, Returned(<<MSG_SET_LOCATION>>), NoRequest)

-----------------------------------------------------------------------------
(* Spec: the calls one after another *)

\* the call made no request to the API
NoHttp == Http(FALSE, FALSE, 0, [none |-> 0], "")

\* A call as its caller sees it, with the store, the file and the allowed fetches it
\* started from, and what requests.get did when the call made a request
Call(op, id, arg, o, http) ==
    [op |-> op, id |-> id, arg |-> arg, ret |-> o.ret, request |-> o.request,
     http |-> IF o.request # NoRequest THEN http ELSE NoHttp,
     before |-> DB, fileBefore |-> file, allowedBefore |-> hist.allowed]
NoCall == [op |-> "none"]

Threads == {1, 2}

Idle == [t \in Threads |-> "idle"]
NoJob == [t \in Threads |-> [op |-> "none"]]
NoHist == [calls |-> [t \in Threads |-> 0], allowed |-> [id \in Ids |-> <<>>],
           tooSoon |-> [id \in Ids |-> FALSE], during |-> [id \in Ids |-> <<>>]]

\* the history once the rate limiter has allowed a fetch of id at time t
Allowed(h, id, t) ==
    [h EXCEPT !.allowed[id] = <<t>>,
              !.tooSoon[id] = @ \/ (h.allowed[id] # <<>> /\ t - h.allowed[id][1] < REQUEST_LIMIT)]

Init ==
    /\ DB = EmptyDB
    /\ file = NoFile
    /\ now = 0
    /\ last = NoCall
    /\ pc = Idle
    /\ job = NoJob
    /\ hist = NoHist

\* a call starts when the caller has taken the previous call's reply
Ready == last.op = "none"

\* the call has run: o is what it leaves
Done(op, id, arg, o, http) ==
    /\ DB' = o.DB
    /\ file' = o.file
    /\ last' = Call(op, id, arg, o, http)
    /\ hist' = IF o.request # NoRequest THEN Allowed(hist, id, now) ELSE hist
    /\ UNCHANGED <<now, pc, job>>

setLocation(id, lat, lon) ==
    /\ Ready
    /\ Done("setLocation", id, [lat |-> lat, lon |-> lon],
            setLocationOp(DB, file, id, lat, lon), NoHttp)

setRadius(id, radius) ==
    /\ Ready
    /\ Done("setRadius", id, radius, setRadiusOp(DB, file, id, radius), NoHttp)

setSource(id, source) ==
    /\ Ready
    /\ Done("setSource", id, source, setSourceOp(DB, file, id, source), NoHttp)

fetchAnomaly(id, type) ==
    /\ Ready
    /\ \E http \in HttpOutcomes :
          Done("fetchAnomaly", id, type, fetchAnomalyOp(DB, file, now, id, type, http), http)

fetchBlindspot(id, type) ==
    /\ Ready
    /\ \E http \in HttpOutcomes :
          Done("fetchBlindspot", id, type, fetchBlindspotOp(DB, file, now, id, type, http), http)

\* the caller takes the reply (or the exception) of the call
Return ==
    /\ ~Ready
    /\ last' = NoCall
    /\ UNCHANGED <<DB, file, now, pc, job, hist>>

\* time passes between two calls
Tick ==
    /\ Ready
    /\ \E d \in TickSeconds : now + d <= MaxTime /\ now' = now + d
    /\ UNCHANGED <<DB, file, last, pc, job, hist>>

Next ==
    \/ \E id \in Ids, loc \in LocInputs : setLocation(id, loc.lat, loc.lon)
    \/ \E id \in Ids, radius \in RadiusInputs : setRadius(id, radius)
    \/ \E id \in Ids, source \in SourceInputs : setSource(id, source)
    \/ \E id \in Ids, type \in AnomalyTypes : fetchAnomaly(id, type)
    \/ \E id \in Ids, type \in BlindspotTypes : fetchBlindspot(id, type)
    \/ Return
    \/ Tick

Spec == Init /\ [][Next]_vars

-----------------------------------------------------------------------------
(* SpecC: two threads call the operations of one FatumBot object.  Nothing   *)
(* in the class takes a lock, so the threads interleave between the          *)
(* statements that read or write self.DB and database.json:                  *)
(*   __rateLimit  read of ts and decision (92-97) | __toDB(ts) (98)           *)
(*   __toDB       DB[id][field] = value (110-111) | open 'w+' (112) |         *)
(*                f.write(json.dumps(DB)) (113) | close of the with (113)     *)
(*   fetches      the API call between the writes                            *)

RadiusInputsC == { Num(10000, 0) }
HttpOutcomesC == { h \in HttpOutcomes : h.raises \/ "result" \in DOMAIN h.body }

DefaultUser == [loc |-> [lat |-> 10, lon |-> 30], rad |-> DEFAULT_RADIUS, src |-> DEFAULT_SOURCE]

\* both users have set their location (u1 twice, which wrote the file)
InitC ==
    /\ DB = [id \in Ids |-> DefaultUser]
    /\ file = Written([id \in Ids |-> DefaultUser])
    /\ now = 0
    /\ last = NoCall
    /\ pc = Idle
    /\ job = NoJob
    /\ hist = NoHist

\* a thread's call and its local variables
Job(op, id, arg) ==
    [op |-> op, id |-> id, arg |-> arg, field |-> "", value |-> "", cont |-> "",
     source |-> "", esrc |-> "", buf |-> {}, ret |-> ReturnedNone]

Begin(t, op, id, arg) ==
    /\ pc[t] = "idle"
    /\ hist.calls[t] < MaxCalls
    /\ hist' = [hist EXCEPT !.calls[t] = @ + 1]
    /\ job' = [job EXCEPT ![t] = Job(op, id, arg)]
    /\ pc' = [pc EXCEPT ![t] = op]
    /\ UNCHANGED <<DB, file, now, last>>

\* the call ends: ret is what the caller gets
End(t, ret) ==
    /\ pc' = [pc EXCEPT ![t] = "idle"]
    /\ job' = [job EXCEPT ![t] = [Job(@.op, @.id, @.arg) EXCEPT !.ret = ret]]

\* the call goes on with __toDB(id, field, value), then with cont (ret when it ends there)
CallToDB(t, field, value, cont, ret) ==
    /\ pc' = [pc EXCEPT ![t] = "toDB_set"]
    /\ job' = [job EXCEPT ![t].field = field, ![t].value = value, ![t].cont = cont,
                          ![t].ret = ret]

\* setRadius 159-164
setRadiusC(t) ==
    /\ pc[t] = "setRadius"
    /\ LET id == job[t].id
           radius == job[t].arg
       IN  IF PyInt(radius) < DEFAULT_RADIUS_MIN \/ PyInt(radius) > DEFAULT_RADIUS_MAX
           THEN End(t, Returned(<<MSG_SET_RADIUS_LIMITS>>))
           ELSE CallToDB(t, "rad", radius, "done", Returned(<<MSG_RADIUS_SET(radius)>>))
    /\ UNCHANGED <<DB, file, now, last, hist>>

\* setSource 176-186
setSourceC(t) ==
    /\ pc[t] = "setSource"
    /\ LET id == job[t].id
           source == job[t].arg
       IN  IF source \in SOURCES
           THEN CallToDB(t, "src", source, "done", Returned(<<MSG_SOURCE_SET(source)>>))
           ELSE IF id \in DOMAIN DB
                THEN End(t, Returned(<<MSG_SOURCE_INVALID(source, DB[id].src),
                                       MSG_SOURCE_AVAILABLE>>))
                ELSE End(t, Returned(<<MSG_SET_LOCATION>>))
    /\ UNCHANGED <<DB, file, now, last, hist>>

\* fetchAnomaly 198-199 and fetchBlindspot 240-241
fetchC(t) ==
    /\ pc[t] \in {"fetchAnomaly", "fetchBlindspot"}
    /\ IF job[t].id \in DOMAIN DB
       THEN pc' = [pc EXCEPT ![t] = "rateLimit"] /\ job' = job
       ELSE End(t, Returned(<<MSG_SET_LOCATION>>))
    /\ UNCHANGED <<DB, file, now, last, hist>>

\* __rateLimit 92-98, and lines 201-202 and 243-244 of the fetch when denied
rateLimitC(t) ==
    /\ pc[t] = "rateLimit"
    /\ LET id == job[t].id
           timestamp == now
       IN  IF "ts" \in DOMAIN DB[id] /\ timestamp - DB[id].ts < REQUEST_LIMIT
           THEN End(t, Returned(<<MSG_RATE_LIMIT_REACHED(
                                     REQUEST_LIMIT - (timestamp - DB[id].ts))>>))
           ELSE CallToDB(t, "ts", timestamp,
                         IF job[t].op = "fetchAnomaly" THEN "anomalyAPI" ELSE "blindspotSource",
                         ReturnedNone)
    /\ UNCHANGED <<DB, file, now, last, hist>>

\* __toDB 110-111
toDBSet(t) ==
    /\ pc[t] = "toDB_set"
    /\ LET id == job[t].id
       IN  IF id \in DOMAIN DB
           THEN /\ DB' = [DB EXCEPT ![id] = (job[t].field :> job[t].value) @@ DB[id]]
                /\ pc' = [pc EXCEPT ![t] = "toDB_open"]
                /\ job' = job
           ELSE /\ DB' = DB
                /\ End(t, Returned(<<MSG_SET_LOCATION>>))
    /\ UNCHANGED <<file, now, last, hist>>

\* __toDB 112: open(..., 'w+') truncates the file
toDBOpen(t) ==
    /\ pc[t] = "toDB_open"
    /\ file' = [state |-> "truncated", text |-> {}]
    /\ pc' = [pc EXCEPT ![t] = "toDB_write"]
    /\ UNCHANGED <<DB, now, last, job, hist>>

\* __toDB 113: json.dumps(self.DB) goes to the file object's buffer
toDBWrite(t) ==
    /\ pc[t] = "toDB_write"
    /\ job' = [job EXCEPT ![t].buf = dumps(DB)]
    /\ pc' = [pc EXCEPT ![t] = "toDB_close"]
    /\ UNCHANGED <<DB, file, now, last, hist>>

\* What the file holds after a buffer is flushed at offset 0: the buffer when the
\* file was empty or held the same text; over another writer's text, the buffer
\* alone when it is as long as that text, else the buffer and the rest of that text.
Flushed(f, buf) ==
    IF f.state = "truncated" \/ f.text = buf
    THEN { [state |-> "written", text |-> buf] }
    ELSE { [state |-> "written", text |-> buf], [state |-> "garbled", text |-> buf] }

\* Thread u is in fetchBlindspot(id, "pseudo") between the write of the override
\* (line 249, self.DB[id]['src'] = 'pseudo') and the write that restores the
\* source (line 253)
InFlight(u, id) ==
    /\ job[u].op = "fetchBlindspot"
    /\ job[u].arg = "pseudo"
    /\ job[u].id = id
    /\ \/ pc[u] \in {"toDB_open", "toDB_write", "toDB_close"} /\ job[u].cont = "blindspotAPI"
       \/ pc[u] = "blindspotAPI"
       \/ pc[u] = "toDB_set" /\ job[u].cont = "done"

\* the history once thread t's call returns: a setSource that returns its success
\* message while a pseudo blindspot fetch of the same id is in flight is recorded
Returns(h, t) ==
    IF /\ job[t].op = "setSource"
       /\ job[t].ret = Returned(<<MSG_SOURCE_SET(job[t].arg)>>)
       /\ \E u \in Threads \ {t} : InFlight(u, job[t].id)
    THEN [h EXCEPT !.during[job[t].id] = <<job[t].arg>>]
    ELSE h

\* __toDB 113-114: leaving the with block flushes the buffer and closes the file;
\* __toDB returns True and the caller goes on
toDBClose(t) ==
    /\ pc[t] = "toDB_close"
    /\ file' \in Flushed(file, job[t].buf)
    /\ IF job[t].cont = "done"
       THEN End(t, job[t].ret) /\ hist' = Returns(hist, t)
       ELSE /\ pc' = [pc EXCEPT ![t] = job[t].cont]
            /\ job' = [job EXCEPT ![t].buf = {}]
            /\ hist' = hist
    /\ UNCHANGED <<DB, now, last>>

\* the rate limiter has allowed the fetch: the API is called
Allow(t) == hist' = Allowed(hist, job[t].id, now)

\* fetchAnomaly 203-226
anomalyAPIC(t) ==
    /\ pc[t] = "anomalyAPI"
    /\ Allow(t)
    /\ \E http \in HttpOutcomesC :
          IF http.raises THEN End(t, Raised)
          ELSE End(t, anomalyReply(fromAPI(http), DB[job[t].id]))
    /\ UNCHANGED <<DB, file, now, last>>

\* fetchBlindspot 245-249
blindspotSourceC(t) ==
    /\ pc[t] = "blindspotSource"
    /\ LET source == DB[job[t].id].src
       IN  IF job[t].arg = "pseudo"
           THEN /\ pc' = [pc EXCEPT ![t] = "toDB_set"]
                /\ job' = [job EXCEPT ![t].source = source, ![t].esrc = "pseudo",
                                      ![t].field = "src", ![t].value = "pseudo",
                                      ![t].cont = "blindspotAPI"]
           ELSE /\ pc' = [pc EXCEPT ![t] = "blindspotAPI"]
                /\ job' = [job EXCEPT ![t].source = source, ![t].esrc = source]
    /\ UNCHANGED <<DB, file, now, last, hist>>

\* fetchBlindspot 250-253 and, from the end of __toDB, 254-268
blindspotAPIC(t) ==
    /\ pc[t] = "blindspotAPI"
    /\ Allow(t)
    /\ \E http \in HttpOutcomesC :
          IF http.raises THEN End(t, Raised)
          ELSE CallToDB(t, "src", job[t].source, "done",
                        blindspotReply(fromAPI(http), job[t].esrc))
    /\ UNCHANGED <<DB, file, now, last>>

NextC ==
    \/ \E t \in Threads, id \in Ids, radius \in RadiusInputsC : Begin(t, "setRadius", id, radius)
    \/ \E t \in Threads, id \in Ids, source \in SourceInputs : Begin(t, "setSource", id, source)
    \/ \E t \in Threads, id \in Ids, type \in AnomalyTypes : Begin(t, "fetchAnomaly", id, type)
    \/ \E t \in Threads, id \in Ids, type \in BlindspotTypes : Begin(t, "fetchBlindspot", id, type)
    \/ \E t \in Threads :
          \/ setRadiusC(t)
          \/ setSourceC(t)
          \/ fetchC(t)
          \/ rateLimitC(t)
          \/ toDBSet(t)
          \/ toDBOpen(t)
          \/ toDBWrite(t)
          \/ toDBClose(t)
          \/ anomalyAPIC(t)
          \/ blindspotSourceC(t)
          \/ blindspotAPIC(t)

SpecC == InitC /\ [][NextC]_vars

-----------------------------------------------------------------------------
(* SpecGeo: stringToGeo applied to every text of up to MaxLen characters.  A  *)
(* text is the sequence of its characters.                                    *)

MaxLen == 4

Chars == {"1", "2", "-", ".", ",", " ", "|", "a"}
Strings == UNION { [1..n -> Chars] : n \in 0..MaxLen }

\* the character classes of COORDS_PATTERN: \d, [-+] and [,| ]
IsDigit(c) == c \in {"0", "1", "2", "3", "4", "5", "6", "7", "8", "9"}
IsSign(c) == c \in {"-", "+"}
IsSeparator(c) == c \in {",", "|", " "}

\* string[p..e] matches [-+]?\d*\.?\d+ : s sign characters, a digits, d dots and
\* then the remaining characters, at least one, all digits
IsNumber(string, p, e) ==
    \E s \in {0, 1}, a \in 0..(e - p + 1), d \in {0, 1} :
        /\ s + a + d <= e - p
        /\ s = 1 => IsSign(string[p])
        /\ \A k \in (p + s)..(p + s + a - 1) : IsDigit(string[k])
        /\ d = 1 => string[p + s + a] = "."
        /\ \A k \in (p + s + a + d)..e : IsDigit(string[k])

\* The matches of COORDS_PATTERN in string: group 1 is string[m[1]..m[2]], one
\* character of [,| ] follows, then an optional space, and group 2 is
\* string[m[3]..m[4]]
Matches(string) ==
    { m \in (1..Len(string)) \X (1..Len(string)) \X (1..Len(string)) \X (1..Len(string)) :
        /\ m[1] <= m[2] /\ m[2] < m[3] /\ m[3] <= m[4]
        /\ IsSeparator(string[m[2] + 1])
        /\ \/ m[3] = m[2] + 2
           \/ m[3] = m[2] + 3 /\ string[m[2] + 2] = " "
        /\ IsNumber(string, m[1], m[2])
        /\ IsNumber(string, m[3], m[4]) }

\* m comes before m2 in the order in which search tries the matches: from the
\* leftmost start, each greedy quantifier taking all it can
Prior(m, m2) ==
    \/ m[1] < m2[1]
    \/ m[1] = m2[1] /\ m[2] > m2[2]
    \/ m[1] = m2[1] /\ m[2] = m2[2] /\ m[3] > m2[3]
    \/ m[1] = m2[1] /\ m[2] = m2[2] /\ m[3] = m2[3] /\ m[4] >= m2[4]

\* coords_re.search(string): the first match, when there is one
search(string) == CHOOSE m \in Matches(string) : \A m2 \in Matches(string) : Prior(m, m2)

NotFound == [kind |-> "False"]

\* stringToGeo: the two groups of the first match, else False
stringToGeoOp(string) ==
    IF Matches(string) # {}
    THEN LET m == search(string)
         IN  [kind |-> "dict", lat |-> SubSeq(string, m[1], m[2]),
                               lon |-> SubSeq(string, m[3], m[4])]
    ELSE NotFound

stringToGeo(string) ==
    /\ Ready
    /\ last' = [op |-> "stringToGeo", arg |-> string, ret |-> stringToGeoOp(string)]
    /\ UNCHANGED <<DB, file, now, pc, job, hist>>

NextGeo ==
    \/ \E string \in Strings : stringToGeo(string)
    \/ Return

SpecGeo == Init /\ [][NextGeo]_vars

-----------------------------------------------------------------------------
(* Claims.  In Spec a state with last.op # "none" is the state a call has    *)
(* left: last holds the call, what it gave its caller, and the store and the *)
(* file it started from; now is the time of the call.                        *)

Fetches == {"fetchAnomaly", "fetchBlindspot"}

\* 1000 <= r <= 10000 for a number r
InRange(r) == r.whole >= 1000 /\ (r.whole < 10000 \/ (r.whole = 10000 /\ r.tenths = 0))

\* the rate limiter let the call through: the API request was made
WasAllowed == last.request # NoRequest

\* C1: when fetchBlindspot(id, "pseudo") has ended for a user with a profile,
\* whatever the API call did (a result, an error response, a transport failure),
\* the profile's entropy source, in the store and in the file, is the one it had
\* immediately before the call.
C1_PseudoOverrideReverted ==
    (last.op = "fetchBlindspot" /\ last.arg = "pseudo" /\ last.id \in DOMAIN last.before)
        => /\ DB[last.id].src = last.before[last.id].src
           /\ (last.id \in DOMAIN Stored(file)
                  => Stored(file)[last.id].src = last.before[last.id].src)

\* C2: a fetch of either kind for a user whose timestamp is present and less than
\* 10 seconds old is denied: the reply is exactly the rate-limit message with
\* 10 - elapsed as the wait, no API request is made, and the store (timestamp,
\* source, radius, location) and the file are what they were.
C2_DeniedFetch ==
    (/\ last.op \in Fetches
     /\ last.id \in DOMAIN last.before
     /\ "ts" \in DOMAIN last.before[last.id]
     /\ now - last.before[last.id].ts < 10)
        => /\ last.ret = Returned(<<MSG_RATE_LIMIT_REACHED(10 - (now - last.before[last.id].ts))>>)
           /\ ~WasAllowed
           /\ DB = last.before
           /\ file = last.fileBefore

\* a fetchBlindspot(id, "pseudo") made 5 seconds after the last allowed fetch has been denied
C2_Witness ==
    /\ last.op = "fetchBlindspot"
    /\ last.arg = "pseudo"
    /\ last.id \in DOMAIN last.before
    /\ "ts" \in DOMAIN last.before[last.id]
    /\ now - last.before[last.id].ts = 5
    /\ last.ret.kind = "list"
    /\ ~WasAllowed

\* C3: a fetch for a user with a profile whose timestamp is absent or at least 10
\* seconds old (10 included) is allowed and sets the timestamp to the current
\* time; and a fetch is denied only less than 10 seconds after the last allowed
\* fetch of that user, however many denied fetches came in between.
C3_AllowedFetch ==
    (last.op \in Fetches /\ last.id \in DOMAIN last.before)
        => /\ ("ts" \notin DOMAIN last.before[last.id] \/ now - last.before[last.id].ts >= 10)
                 => (WasAllowed /\ "ts" \in DOMAIN DB[last.id] /\ DB[last.id].ts = now)
           /\ ~WasAllowed
                 => (hist.allowed[last.id] # <<>> /\ now - hist.allowed[last.id][1] < 10)

\* a fetch made exactly 10 seconds after the last allowed fetch has been allowed
C3_Witness ==
    /\ last.op \in Fetches
    /\ last.id \in DOMAIN last.before
    /\ "ts" \in DOMAIN last.before[last.id]
    /\ now - last.before[last.id].ts = 10
    /\ WasAllowed
    /\ DB[last.id].ts = now

\* C4: from the empty store, after any calls with any arguments and at every
\* state in between, every stored profile has 1000 <= radius <= 10000 and an
\* entropy source in {temporal, pseudo}.
C4_ProfilesLegal ==
    \A id \in DOMAIN DB : InRange(DB[id].rad) /\ DB[id].src \in {"temporal", "pseudo"}

\* C5: whenever a public operation has returned, the durable store's content
\* equals the in-memory store (every change of the store, profile creation
\* included, rewrote the file).
C5_WriteThrough ==
    Stored(file) = DB

\* C6: every call of fetchAnomaly and fetchBlindspot gives its caller a non-empty
\* list of strings and raises nothing, for every API outcome.
C6_FetchAlwaysReplies ==
    last.op \in Fetches => (last.ret.kind = "list" /\ last.ret.val # <<>>)

\* C7: for a user id with no profile, fetchAnomaly, fetchBlindspot, setRadius with
\* a radius in 1000..10000 and setSource with temporal or pseudo return exactly
\* the set-your-location-first prompt, leave the store and the file unchanged and
\* make no API request.
C7_NoProfile ==
    (/\ last.op # "none"
     /\ last.id \notin DOMAIN last.before
     /\ \/ last.op \in Fetches
        \/ (last.op = "setRadius" /\ InRange(last.arg))
        \/ (last.op = "setSource" /\ last.arg \in {"temporal", "pseudo"}))
        => /\ last.ret = Returned(<<MSG_SET_LOCATION>>)
           /\ DB = last.before
           /\ file = last.fileBefore
           /\ ~WasAllowed
           /\ hist.allowed[last.id] = <<>>

\* setRadius(id, 10000) has been called for an id with no profile while the other user has one
C7_Witness ==
    /\ last.op = "setRadius"
    /\ last.arg = Num(10000, 0)
    /\ last.id \notin DOMAIN last.before
    /\ DOMAIN last.before # {}
    /\ last.ret = Returned(<<MSG_SET_LOCATION>>)

\* C8: of the fetches of one user id, concurrent ones included, no two are
\* allowed less than 10 seconds apart: when two run at the same time at most one
\* is allowed.
C8_CheckAndRecordAtomic ==
    \A id \in Ids : ~hist.tooSoon[id]

\* C9: when calls changing two different users' profiles run concurrently, no two
\* of them are between the open and the close of database.json at once, and once
\* both have returned the file holds the in-memory store.
C9_WritesSerialized ==
    (/\ \A t \in Threads : job[t].op # "none"
     /\ job[1].id # job[2].id)
        => /\ ~(\A t \in Threads : pc[t] \in {"toDB_write", "toDB_close"})
           /\ (\A t \in Threads : pc[t] = "idle")
                 => (file.state = "written" /\ loads(file.text) = DB)

\* C10: setRadius(id, r) with 1000 <= r <= 10000 on an existing profile returns
\* the radius-set message and the profile's radius is then r; with r < 1000 or
\* r > 10000 the limits message is returned and the store is unchanged, with or
\* without a profile.
C10_SetRadius ==
    last.op = "setRadius"
        => /\ (InRange(last.arg) /\ last.id \in DOMAIN last.before)
                 => (/\ last.ret = Returned(<<MSG_RADIUS_SET(last.arg)>>)
                     /\ DB[last.id].rad = last.arg)
           /\ ~InRange(last.arg)
                 => (/\ last.ret = Returned(<<MSG_SET_RADIUS_LIMITS>>)
                     /\ DB = last.before)

\* C11: setSource(id, s) with s outside {temporal, pseudo} leaves the store and
\* the file as they were; for an id with a profile the reply names the profile's
\* current source and lists all the sources, for an id without one the reply is
\* the set-your-location-first message.
C11_InvalidSource ==
    (last.op = "setSource" /\ last.arg \notin {"temporal", "pseudo"})
        => /\ DB = last.before
           /\ file = last.fileBefore
           /\ last.id \in DOMAIN last.before
                 => last.ret = Returned(<<MSG_SOURCE_INVALID(last.arg, last.before[last.id].src),
                                          "The following sources are available: ['temporal', 'pseudo']">>)
           /\ last.id \notin DOMAIN last.before
                 => last.ret = Returned(<<MSG_SET_LOCATION>>)

\* setSource with an unknown source has been called for a profile whose source is pseudo
C11_Witness ==
    /\ last.op = "setSource"
    /\ last.arg = "quantum"
    /\ last.id \in DOMAIN last.before
    /\ last.before[last.id].src = "pseudo"
    /\ "ts" \in DOMAIN last.before[last.id]

\* the API answered the allowed fetch with an error response
ErrorResponse == WasAllowed /\ ~last.http.raises /\ ~last.http.ok

\* C12: an allowed fetch whose API response is an error returns, for fetchAnomaly,
\* exactly the no-anomaly message when the status is 418 and exactly the raw
\* error text for any other status; for fetchBlindspot exactly the raw error text
\* for every status, 418 included.
C12_ErrorReplies ==
    (last.op \in Fetches /\ ErrorResponse)
        => IF last.op = "fetchAnomaly" /\ last.http.status_code = 418
           THEN last.ret = Returned(<<MSG_NO_ANOMALY_FOUND>>)
           ELSE last.ret = Returned(<<last.http.text>>)

\* an allowed fetchBlindspot got status 418 and returned the API's error text
C12_Witness ==
    /\ last.op = "fetchBlindspot"
    /\ ErrorResponse
    /\ last.http.status_code = 418
    /\ last.ret = Returned(<<"teapot">>)

\* C13: an allowed fetch leaves lastRequestTimestamp = now in the store and in the
\* file whatever the API call did (result, error response, transport failure),
\* and a fetch of a user id less than 10 seconds after an allowed fetch of that
\* id, a failed one included, is denied.
C13_StampBeforeAPI ==
    last.op \in Fetches
        => /\ WasAllowed
                 => (/\ "ts" \in DOMAIN DB[last.id]
                     /\ DB[last.id].ts = now
                     /\ last.id \in DOMAIN Stored(file)
                     /\ "ts" \in DOMAIN Stored(file)[last.id]
                     /\ Stored(file)[last.id].ts = now)
           /\ (/\ last.allowedBefore[last.id] # <<>>
               /\ now - last.allowedBefore[last.id][1] < 10)
                 => (/\ ~WasAllowed
                     /\ last.ret = Returned(<<MSG_RATE_LIMIT_REACHED(
                                       10 - (now - last.allowedBefore[last.id][1]))>>))

\* requests.get raised in an allowed fetch, whose timestamp stays
C13_Witness ==
    /\ last.op \in Fetches
    /\ WasAllowed
    /\ last.http.raises
    /\ last.ret = Raised
    /\ DB[last.id].ts = now
    /\ now > 0

\* C14: setLocation(id, lat, lon) for an id with no profile creates the profile
\* with that location, radius 2000, source temporal and no timestamp; for an id
\* with a profile it replaces the location and nothing else of the profile; the
\* reply is the default-radius confirmation in both cases.
C14_SetLocation ==
    last.op = "setLocation"
        => /\ last.ret = Returned(<<"Location set with radius 2000.">>)
           /\ last.id \in DOMAIN DB
           /\ DB[last.id].loc = last.arg
           /\ IF last.id \notin DOMAIN last.before
              THEN DB[last.id] = [loc |-> last.arg, rad |-> Num(2000, 0), src |-> "temporal"]
              ELSE /\ DOMAIN DB[last.id] = DOMAIN last.before[last.id]
                   /\ \A k \in DOMAIN DB[last.id] \ {"loc"} :
                         DB[last.id][k] = last.before[last.id][k]

\* setLocation has moved a profile that has a timestamp, radius 10000 and source pseudo
C14_Witness ==
    /\ last.op = "setLocation"
    /\ last.id \in DOMAIN last.before
    /\ last.before[last.id].loc # last.arg
    /\ "ts" \in DOMAIN last.before[last.id]
    /\ last.before[last.id].rad = Num(10000, 0)
    /\ last.before[last.id].src = "pseudo"

Setters == {"setLocation", "setRadius", "setSource"}

C17_WindowPerUser ==
    /\ \A id \in Ids : hist.tooSoon[id] = FALSE
    /\ (last.op \in Fetches /\ last.id \in DOMAIN last.before)
          => (WasAllowed <=> (\/ last.allowedBefore[last.id] = <<>>
                              \/ now - last.allowedBefore[last.id][1] >= 10))

\* a fetch is allowed 10 seconds or more after the last allowed fetch of its id
\* and less than 10 seconds after an allowed fetch of another id
C17_Witness ==
    /\ last.op \in Fetches
    /\ WasAllowed
    /\ last.allowedBefore[last.id] # <<>>
    /\ \E other \in Ids \ {last.id} :
          /\ last.allowedBefore[other] # <<>>
          /\ now - last.allowedBefore[other][1] < 10

\* C18: a call of a public operation with user id A leaves the profile of every
\* other id B as it was and neither creates nor removes B's profile, and no
\* operation removes a profile.
C18_UserIsolation ==
    last.op # "none"
        => /\ DOMAIN last.before \subseteq DOMAIN DB
           /\ \A B \in Ids \ {last.id} :
                 /\ B \in DOMAIN DB <=> B \in DOMAIN last.before
                 /\ B \in DOMAIN DB => DB[B] = last.before[B]

\* a call has changed its own user's profile while another user has a profile
\* that differs from it
C18_Witness ==
    /\ last.op # "none"
    /\ last.id \in DOMAIN last.before
    /\ DB[last.id] # last.before[last.id]
    /\ \E B \in Ids \ {last.id} :
          /\ B \in DOMAIN DB
          /\ "ts" \in DOMAIN DB[B]
          /\ DB[B] # DB[last.id]

\* C19: a source update is not lost to the restore of the pseudo override: when
\* setSource(id, s) returns its success message while fetchBlindspot(id, "pseudo")
\* is between its override write and its restore write, then once both calls
\* have ended, each with a reply, the profile's source is s.
C19_SourceUpdateKept ==
    \A id \in Ids :
        (/\ hist.during[id] # <<>>
         /\ \A t \in Threads : pc[t] = "idle" /\ job[t].ret.kind = "list")
            => DB[id].src = hist.during[id][1]

\* A numeric token of the text: an optional sign, digits, and an optional
\* fractional part (a dot and digits)
NumericToken(string, p, e) ==
    \E s \in {0, 1}, a \in 1..(e - p + 1) :
        /\ p + s + a - 1 <= e
        /\ s = 1 => IsSign(string[p])
        /\ \A k \in (p + s)..(p + s + a - 1) : IsDigit(string[k])
        /\ \/ p + s + a - 1 = e
           \/ /\ p + s + a + 1 <= e
              /\ string[p + s + a] = "."
              /\ \A k \in (p + s + a + 1)..e : IsDigit(string[k])

\* The occurrences of two numeric tokens separated by a comma, a comma and one
\* space, or a space
Occurrences(string) ==
    { m \in (1..Len(string)) \X (1..Len(string)) \X (1..Len(string)) \X (1..Len(string)) :
        /\ m[1] <= m[2] /\ m[2] < m[3] /\ m[3] <= m[4]
        /\ \/ m[3] = m[2] + 2 /\ string[m[2] + 1] \in {",", " "}
           \/ m[3] = m[2] + 3 /\ string[m[2] + 1] = "," /\ string[m[2] + 2] = " "
        /\ NumericToken(string, m[1], m[2])
        /\ NumericToken(string, m[3], m[4]) }

\* C16: for every text over digits, sign, dot, comma, space and other characters
\* ('|', letters), stringToGeo returns a pair exactly when the text contains two
\* numeric tokens (optional sign, digits, optional fractional part) separated by
\* a comma, a comma and one space, or a space; the pair is then the two
\* substrings of the first such occurrence; otherwise it returns NotFound.
C16_ParsesCoordinates ==
    last.op = "stringToGeo"
        => IF Occurrences(last.arg) = {}
           THEN last.ret = NotFound
           ELSE /\ last.ret.kind = "dict"
                /\ \E m \in Occurrences(last.arg) :
                      /\ \A m2 \in Occurrences(last.arg) : m[1] <= m2[1]
                      /\ last.ret.lat = SubSeq(last.arg, m[1], m[2])
                      /\ last.ret.lon = SubSeq(last.arg, m[3], m[4])

====
